---- MODULE Spec2Model ----
(***************************************************************************)
(* Model of src/src/rpi5_ws2812/ws2812.py: Color, Strip (the pixel buffer)  *)
(* and WS2812SpiDriver (the SPI encoder and bus driver).                    *)
(*                                                                         *)
(* Python values are represented as follows.                               *)
(*   - a Color object is a record [r, g, b, w];                            *)
(*   - a list / bytearray / raveled numpy array is a sequence (index 0 of  *)
(*     the code is index 1 here);                                          *)
(*   - None is the list reference 0; the list objects the initializer      *)
(*     creates live in `heap` and are referred to by their position in it; *)
(*     Built refers to the list a completed, undisturbed initializer call  *)
(*     leaves behind, whose content is FullLookup;                         *)
(*   - a float brightness is a count of hundredths (1.0 is One);           *)
(*   - a raised exception is the `error` field of the state after the      *)
(*     call ("none" when the call returned normally).                      *)
(***************************************************************************)
EXTENDS Integers, Sequences, FiniteSets, TLC

VARIABLES
    SPI_LOOKUP,   \* WS2812SpiDriver._SPI_LOOKUP: reference to a list, or None
    heap,         \* the list objects created by `cls._SPI_LOOKUP = []`
    thr,          \* per thread: position inside _init_spi_lookup
    nvals,        \* the n of `for byte_val in range(n)` (256 in the code)
    sys,          \* one driver + strip pair, and the last call made on it
    twin          \* a second run of the same calls, for two-run properties

vars == <<SPI_LOOKUP, heap, thr, nvals, sys, twin>>

----------------------------------------------------------------------------
(* Bounds of the model                                                     *)

MaxLeds == 2          \* led_count ranges over 0..MaxLeds
MaxRows == 2          \* batch lists / arrays have 0..MaxRows elements
NumThreads == 2       \* concurrent driver constructions
InterleavedVals == 3  \* table entries built when constructions interleave

(* Program constants                                                       *)

PREAMBLE == 42
ByteRange == 256
One == 100            \* brightness 1.0, in hundredths

None == 0
Built == 0 - 1

Min(a, b) == IF a < b THEN a ELSE b
Max(a, b) == IF a > b THEN a ELSE b

----------------------------------------------------------------------------
(* ProtocolEncoder: WS2812SpiDriver._init_spi_lookup                        *)

LED_ZERO == <<1, 0, 0>>
LED_ONE == <<1, 1, 0>>

\* (byte_val >> i) & 1
BitAt(byte_val, i) == (byte_val \div (2 ^ i)) % 2

BitPatternFlipped(bit) == IF bit = 1 THEN LED_ZERO ELSE LED_ONE

\* '110' if bit else '100'
BitPattern(bit) == IF bit = 1 THEN LED_ONE ELSE LED_ZERO

\* ''.join(bits) for i in range(7, -1, -1): the 24-character bit string
BitString(byte_val) ==
    [k \in 1..24 |-> BitPattern(BitAt(byte_val, 7 - ((k - 1) \div 3)))[((k - 1) % 3) + 1]]

\* int(s, 2) of a string of binary digits
RECURSIVE ParseBinary(_)
ParseBinary(s) ==
    IF Len(s) = 0 THEN 0
    ELSE 2 * ParseBinary(SubSeq(s, 1, Len(s) - 1)) + s[Len(s)]

\* bytes([int(bit_string[0:8], 2), int(bit_string[8:16], 2), int(bit_string[16:24], 2)])
Packed(byte_val) ==
    LET bit_string == BitString(byte_val)
    IN  << ParseBinary(SubSeq(bit_string, 1, 8)),
           ParseBinary(SubSeq(bit_string, 9, 16)),
           ParseBinary(SubSeq(bit_string, 17, 24)) >>

\* The table a single, undisturbed run of the initializer leaves behind.
BuiltLookup(n) == [v \in 1..n |-> Packed(v - 1)]

FullLookup == BuiltLookup(ByteRange)

\* The list cls._SPI_LOOKUP currently refers to (only used when it is not None).
Table == IF SPI_LOOKUP = Built THEN FullLookup ELSE heap[SPI_LOOKUP]

Threads == DOMAIN thr

\* `if cls._SPI_LOOKUP is not None: return`
InitCheck(t) ==
    /\ thr[t].pc = "check"
    /\ thr' = [thr EXCEPT ![t].pc = IF SPI_LOOKUP # None THEN "returned" ELSE "assign"]
    /\ UNCHANGED <<SPI_LOOKUP, heap, nvals, sys, twin>>

\* `cls._SPI_LOOKUP = []`, then the loop starts at byte_val = 0
InitAssign(t) ==
    /\ thr[t].pc = "assign"
    /\ heap' = Append(heap, <<>>)
    /\ SPI_LOOKUP' = Len(heap) + 1
    /\ thr' = [thr EXCEPT ![t].pc = IF 0 < nvals THEN "load" ELSE "returned",
                          ![t].byte_val = 0]
    /\ UNCHANGED <<nvals, sys, twin>>

\* `cls._SPI_LOOKUP.append(packed)`, first half: the attribute is read
InitLoad(t) ==
    /\ thr[t].pc = "load"
    /\ thr' = [thr EXCEPT ![t].pc = "append", ![t].ref = SPI_LOOKUP]
    /\ UNCHANGED <<SPI_LOOKUP, heap, nvals, sys, twin>>

\* second half: the list that was read is appended to; next loop iteration
InitAppend(t) ==
    /\ thr[t].pc = "append"
    /\ heap' = [heap EXCEPT ![thr[t].ref] = Append(@, Packed(thr[t].byte_val))]
    /\ thr' = [thr EXCEPT ![t].pc = IF thr[t].byte_val + 1 < nvals THEN "load" ELSE "returned",
                          ![t].byte_val = @ + 1]
    /\ UNCHANGED <<SPI_LOOKUP, nvals, sys, twin>>

LookupCheck == \E t \in Threads : InitCheck(t)
LookupAssign == \E t \in Threads : InitAssign(t)
LookupLoad == \E t \in Threads : InitLoad(t)
LookupAppend == \E t \in Threads : InitAppend(t)

\* One step of some thread inside _init_spi_lookup; a thread switch can fall
\* between any two of them.
init_spi_lookup ==
    \/ LookupCheck
    \/ LookupAssign
    \/ LookupLoad
    \/ LookupAppend

NewThread == [pc |-> "check", byte_val |-> 0, ref |-> None]

----------------------------------------------------------------------------
(* Color                                                                    *)

Color(r, g, b, w) == [r |-> r, g |-> g, b |-> b, w |-> w]

Black == Color(0, 0, 0, 0)

\* The colours callers use in the model (all channels in 0..255).
Colors == { Black, Color(10, 20, 30, 40) }

----------------------------------------------------------------------------
(* Python sequence primitives                                              *)

Zeros(n) == [k \in 1..n |-> 0]

\* list.__setitem__ index resolution: the position (from 1) that index i of a
\* list of length n names, negative indices counting from the end; 0 stands
\* for IndexError.
ListIndex(n, i) ==
    IF 0 <= i /\ i < n THEN i + 1
    ELSE IF i < 0 /\ -n <= i THEN n + i + 1
    ELSE 0

\* bytearray slice assignment b[lo:hi] = v for 0 <= lo <= hi: both ends are
\* clipped to len(b), the slice is replaced by v, and the bytearray grows when
\* v is longer than the slice it replaces.
SliceAssign(b, lo, hi, v) ==
    LET n == Len(b)
    IN  SubSeq(b, 1, Min(lo, n)) \o v \o SubSeq(b, Min(hi, n) + 1, n)

\* numpy.ndarray.ravel() of a 2-D array given as a sequence of rows
RECURSIVE Ravel(_)
Ravel(rows) ==
    IF Len(rows) = 0 THEN <<>> ELSE rows[1] \o Ravel(Tail(rows))

----------------------------------------------------------------------------
(* WS2812SpiDriver                                                          *)

\* self._clear_buffer = bytearray(PREAMBLE + spi_bytes)
ClearBuffer(led_count, bytes_per_pixel) ==
    Zeros(PREAMBLE + led_count * bytes_per_pixel * 3)

\* self._spi_buffer = bytearray(PREAMBLE + spi_bytes)
SpiBuffer(led_count, bytes_per_pixel) ==
    Zeros(PREAMBLE + led_count * bytes_per_pixel * 3)

\* self._device.writebytes2(frame): one transfer on the bus; ok is whether
\* the transfer succeeded (it raises otherwise).
Transfer(s, frame, ok) ==
    [s EXCEPT !.bus = Append(@, frame),
              !.error = IF ok THEN "none" ELSE "BusError"]

\* The loop of write(): encoded = _SPI_LOOKUP[byte_val];
\* _spi_buffer[offset:offset+3] = encoded; offset += 3.  k is the position in
\* flattened_colors.  A byte value the table has no entry for raises.
RECURSIVE EncodeLoop(_, _, _, _, _)
EncodeLoop(buf, table, flat, k, offset) ==
    IF k > Len(flat) THEN [buf |-> buf, error |-> "none"]
    ELSE IF flat[k] + 1 > Len(table) THEN [buf |-> buf, error |-> "IndexError"]
    ELSE EncodeLoop(SliceAssign(buf, offset, offset + 3, table[flat[k] + 1]),
                    table, flat, k + 1, offset + 3)

\* offset = PREAMBLE; the loop over buffer.ravel()
Encode(buf, table, flat) == EncodeLoop(buf, table, flat, 1, PREAMBLE)

\* WS2812SpiDriver.write(buffer)
write(s, table, buffer, ok) ==
    LET enc == Encode(s.spi_buffer, table, Ravel(buffer))
        s1 == [s EXCEPT !.spi_buffer = enc.buf]
    IN  IF enc.error # "none" THEN [s1 EXCEPT !.error = enc.error]
        ELSE Transfer(s1, enc.buf, ok)

\* WS2812SpiDriver.clear()
driver_clear(s, ok) == Transfer(s, s.clear_buffer, ok)

----------------------------------------------------------------------------
(* Strip                                                                    *)

\* A call starts with no transfer made and no exception raised.
Begin(s, call) == [s EXCEPT !.bus = <<>>, !.error = "none", !.call = call]

SetItemNoWrap(s, idx, color) ==
    IF 0 <= idx /\ idx < Len(s.pixels)
    THEN [s EXCEPT !.pixels[idx + 1] = color]
    ELSE [s EXCEPT !.error = "IndexError"]

\* self._pixels[idx] = color
SetItem(s, idx, color) ==
    LET k == ListIndex(Len(s.pixels), idx)
    IN  IF k = 0 THEN [s EXCEPT !.error = "IndexError"]
        ELSE [s EXCEPT !.pixels[k] = color]

\* Strip.set_pixel_color(i, color)
set_pixel_color(s, i, color) ==
    SetItem(Begin(s, "set_pixel_color"), i, color)

\* The Color stored for one element of `colors`: a Color object is stored as
\* it is, a tuple or list becomes Color(c[0], c[1], c[2], c[3]) when it has
\* at least 4 items and Color(c[0], c[1], c[2], 0) otherwise.
ElementColor(el) ==
    IF el.kind = "Color" THEN Color(el.ch[1], el.ch[2], el.ch[3], el.ch[4])
    ELSE IF Len(el.ch) >= 4 THEN Color(el.ch[1], el.ch[2], el.ch[3], el.ch[4])
    ELSE Color(el.ch[1], el.ch[2], el.ch[3], 0)

RECURSIVE BatchLoopNoClamp(_, _, _, _)
BatchLoopNoClamp(s, start, colors, i) ==
    IF i >= Len(colors) THEN s
    ELSE LET s1 == SetItemNoWrap(s, start + i, ElementColor(colors[i + 1]))
         IN  IF s1.error # "none" THEN s1
             ELSE BatchLoopNoClamp(s1, start, colors, i + 1)

\* The loop of set_pixels_batch from element i (counted from 0) on.
RECURSIVE BatchLoop(_, _, _, _)
BatchLoop(s, start, colors, i) ==
    IF i >= Len(colors) THEN s
    ELSE LET idx == start + i
             el == colors[i + 1]
         IN  IF idx >= s.led_count THEN s
             ELSE IF el.kind \notin {"Color", "tuple"} THEN [s EXCEPT !.error = "ValueError"]
             ELSE IF el.kind = "tuple" /\ Len(el.ch) < 3 THEN [s EXCEPT !.error = "IndexError"]
             ELSE LET s1 == SetItem(s, idx, ElementColor(el))
                  IN  IF s1.error # "none" THEN s1
                      ELSE BatchLoop(s1, start, colors, i + 1)

\* Strip.set_pixels_batch(start, colors)
set_pixels_batch(s, start, colors) ==
    BatchLoop(Begin(s, "set_pixels_batch"),
              start, colors, 0)

\* `for i in range(n_actual): self._pixels[start + i] = Color(...)`, with the
\* white channel taken from column 3 of a 4-column array and 0 otherwise.
RECURSIVE ArrayLoop(_, _, _, _, _)
ArrayLoop(s, start, array, n_actual, i) ==
    IF i >= n_actual THEN s
    ELSE LET row == array.rows[i + 1]
             color == Color(row[1], row[2], row[3], IF array.width = 4 THEN row[4] ELSE 0)
             s1 == SetItem(s, start + i, color)
         IN  IF s1.error # "none" THEN s1
             ELSE ArrayLoop(s1, start, array, n_actual, i + 1)

ArrayBodyLateCheck(s, start, array) ==
    LET n_pixels == Len(array.rows)
        end == Min(start + n_pixels, s.led_count)
        n_actual == end - start
    IN  IF array.width \in {3, 4} THEN ArrayLoop(s, start, array, n_actual, 0)
        ELSE IF array.width < 3 THEN [s EXCEPT !.error = "IndexError"]
        ELSE LET s1 == ArrayLoop(s, start, [array EXCEPT !.width = 3], n_actual, 0)
             IN  IF s1.error # "none" THEN s1 ELSE [s1 EXCEPT !.error = "ValueError"]

\* The body of set_pixels_array: an array is [rows, width], its shape being
\* (Len(rows), width).
ArrayBody(s, start, array) ==
    LET n_pixels == Len(array.rows)
        end == Min(start + n_pixels, s.led_count)
        n_actual == end - start
    IN  IF array.width = 4 \/ array.width = 3
        THEN ArrayLoop(s, start, array, n_actual, 0)
        ELSE [s EXCEPT !.error = "ValueError"]

\* Strip.set_pixels_array(start, rgbw_array)
set_pixels_array(s, start, array) ==
    ArrayBody(Begin(s, "set_pixels_array"),
              start, array)

\* Strip.set_all_pixels(color)
set_all_pixels(s, color) ==
    [Begin(s, "set_all_pixels")
        EXCEPT !.pixels = [k \in 1..s.led_count |-> color]]

WireRowRGB(pixel, has_white) ==
    IF has_white THEN <<pixel.r, pixel.g, pixel.b, pixel.w>>
    ELSE <<pixel.r, pixel.g, pixel.b>>

\* One row of self._pixel_buffer as show() fills it: GRBW or GRB.
WireRow(pixel, has_white) ==
    IF has_white THEN <<pixel.g, pixel.r, pixel.b, pixel.w>>
    ELSE <<pixel.g, pixel.r, pixel.b>>

ScaledPixel(pixel, brightness) ==
    Color((pixel.r * brightness) \div One, (pixel.g * brightness) \div One,
          (pixel.b * brightness) \div One, (pixel.w * brightness) \div One)

FillScaled(s) ==
    [i \in 1..s.led_count |-> WireRow(ScaledPixel(s.pixels[i], s.brightness), s.has_white)]

\* The loop of show(): self._pixel_buffer[i, :] for every i in range(led_count)
Fill(s) == [i \in 1..s.led_count |-> WireRow(s.pixels[i], s.has_white)]

\* Strip.show()
show(s, table, ok) ==
    LET s1 == [Begin(s, "show") EXCEPT !.pixel_buffer = Fill(s)]
    IN  write(s1, table, s1.pixel_buffer, ok)

clear_transfer_first(s, ok) ==
    LET s1 == driver_clear(Begin(s, "clear"), ok)
    IN  IF ok THEN [s1 EXCEPT !.pixels = [k \in 1..s.led_count |-> Black]] ELSE s1

\* Strip.clear()
clear(s, ok) ==
    driver_clear([Begin(s, "clear")
                     EXCEPT !.pixels = [k \in 1..s.led_count |-> Black]], ok)

\* max(min(brightness, 1.0), 0.0)
Clamp(brightness) == Max(Min(brightness, One), 0)

\* Strip.set_brightness(brightness)
set_brightness(s, brightness) ==
    [Begin(s, "set_brightness")
        EXCEPT !.brightness = Clamp(brightness)]

\* WS2812SpiDriver.__init__(spi_bus, spi_device, led_count, has_white) followed
\* by Strip.__init__(backend, has_white): the fields of both objects.
NewSystem(led_count, drv_has_white, has_white) ==
    LET bytes_per_pixel == IF drv_has_white THEN 4 ELSE 3
    IN  [ led_count       |-> led_count,
          drv_has_white   |-> drv_has_white,
          bytes_per_pixel |-> bytes_per_pixel,
          clear_buffer    |-> ClearBuffer(led_count, bytes_per_pixel),
          spi_buffer      |-> SpiBuffer(led_count, bytes_per_pixel),
          has_white       |-> has_white,
          pixels          |-> [k \in 1..led_count |-> Black],
          pixel_buffer    |-> [k \in 1..led_count |-> Zeros(IF has_white THEN 4 ELSE 3)],
          brightness      |-> One,
          bus             |-> <<>>,
          call            |-> "init",
          error           |-> "none" ]

----------------------------------------------------------------------------
(* Inputs of the calls                                                      *)

SeqsUpTo(S, n) == UNION { [1..k -> S] : k \in 0..n }

\* i of set_pixel_color: every index a strip of up to MaxLeds pixels accepts,
\* and one beyond on either side
Indices == (0 - MaxLeds - 1)..(MaxLeds + 1)

\* start of the batch calls
Starts == 0..(MaxLeds + 1)

\* elements of the `colors` list: a Color object, an (r, g, b, w) tuple and
\* an (r, g, b) tuple
Elements ==
    { [kind |-> "Color", ch |-> <<10, 20, 30, 40>>],
      [kind |-> "tuple", ch |-> <<10, 20, 30, 40>>],
      [kind |-> "tuple", ch |-> <<0, 0, 0>>] }

ColorLists == SeqsUpTo(Elements, MaxRows)

\* uint8 arrays of shape (n, width), n in 0..MaxRows, width in 2..5
RowsOfWidth(width) ==
    IF width = 3 THEN { <<0, 0, 0>> } ELSE { SubSeq(<<10, 20, 30, 40, 50>>, 1, width) }

Arrays ==
    UNION { { [rows |-> rows, width |-> width] : rows \in SeqsUpTo(RowsOfWidth(width), MaxRows) } :
            width \in 2..5 }

\* brightness arguments: -0.5, 0.0, 0.5, 1.0, 1.5
Brightnesses == { 0 - (One \div 2), 0, One \div 2, One, One + (One \div 2) }

\* arrays handed to WS2812SpiDriver.write directly: up to MaxLeds rows of 3
\* or of 4 channel bytes, whatever the driver's led_count and has_white are
WriteBuffers ==
    UNION { SeqsUpTo({ WireRow(c, hw) : c \in Colors }, MaxLeds) : hw \in BOOLEAN }

----------------------------------------------------------------------------
(* Actions: one public call on the driver/strip pair                        *)

Rest == <<SPI_LOOKUP, heap, thr, nvals>>

SetPixelColor ==
    /\ \E i \in Indices, color \in Colors : sys' = set_pixel_color(sys, i, color)
    /\ UNCHANGED <<Rest, twin>>

SetPixelsBatch ==
    /\ \E start \in Starts, colors \in ColorLists : sys' = set_pixels_batch(sys, start, colors)
    /\ UNCHANGED <<Rest, twin>>

SetPixelsArray ==
    /\ \E start \in Starts, array \in Arrays : sys' = set_pixels_array(sys, start, array)
    /\ UNCHANGED <<Rest, twin>>

SetAllPixels ==
    /\ \E color \in Colors : sys' = set_all_pixels(sys, color)
    /\ UNCHANGED <<Rest, twin>>

Show ==
    /\ \E ok \in BOOLEAN : sys' = show(sys, Table, ok)
    /\ UNCHANGED <<Rest, twin>>

Clear ==
    /\ \E ok \in BOOLEAN : sys' = clear(sys, ok)
    /\ UNCHANGED <<Rest, twin>>

SetBrightness ==
    /\ \E brightness \in Brightnesses : sys' = set_brightness(sys, brightness)
    /\ UNCHANGED <<Rest, twin>>

\* WS2812SpiDriver.write called directly, not through Strip.show
DriverWrite ==
    /\ \E buffer \in WriteBuffers, ok \in BOOLEAN :
          sys' = write(Begin(sys, "write"), Table, buffer, ok)
    /\ UNCHANGED <<Rest, twin>>

\* The table has been built by the first driver construction, and no
\* construction is under way.
LookupBuilt ==
    /\ SPI_LOOKUP = Built
    /\ heap = <<>>
    /\ thr = <<>>
    /\ nvals = ByteRange

\* driver = WS2812SpiDriver(bus, device, led_count, has_white);
\* strip = driver.get_strip()
Init ==
    /\ LookupBuilt
    /\ \E led_count \in 0..MaxLeds, has_white \in BOOLEAN :
          sys = NewSystem(led_count, has_white, has_white)
    /\ twin = sys

Next ==
    \/ SetPixelColor
    \/ SetPixelsBatch
    \/ SetPixelsArray
    \/ SetAllPixels
    \/ Show
    \/ Clear
    \/ SetBrightness

Spec == Init /\ [][Next]_vars

----------------------------------------------------------------------------
(* The same calls made on two driver/strip pairs that are given different   *)
(* brightness values                                                        *)

TwinSetPixelColor ==
    /\ \E i \in Indices, color \in Colors :
          /\ sys' = set_pixel_color(sys, i, color)
          /\ twin' = set_pixel_color(twin, i, color)
    /\ UNCHANGED Rest

TwinSetPixelsBatch ==
    /\ \E start \in Starts, colors \in ColorLists :
          /\ sys' = set_pixels_batch(sys, start, colors)
          /\ twin' = set_pixels_batch(twin, start, colors)
    /\ UNCHANGED Rest

TwinSetPixelsArray ==
    /\ \E start \in Starts, array \in Arrays :
          /\ sys' = set_pixels_array(sys, start, array)
          /\ twin' = set_pixels_array(twin, start, array)
    /\ UNCHANGED Rest

TwinSetAllPixels ==
    /\ \E color \in Colors :
          /\ sys' = set_all_pixels(sys, color)
          /\ twin' = set_all_pixels(twin, color)
    /\ UNCHANGED Rest

TwinShow ==
    /\ \E ok \in BOOLEAN :
          /\ sys' = show(sys, Table, ok)
          /\ twin' = show(twin, Table, ok)
    /\ UNCHANGED Rest

TwinClear ==
    /\ \E ok \in BOOLEAN :
          /\ sys' = clear(sys, ok)
          /\ twin' = clear(twin, ok)
    /\ UNCHANGED Rest

TwinSetBrightness ==
    /\ \E b1 \in Brightnesses, b2 \in Brightnesses :
          /\ sys' = set_brightness(sys, b1)
          /\ twin' = set_brightness(twin, b2)
    /\ UNCHANGED Rest

NextTwin ==
    \/ TwinSetPixelColor
    \/ TwinSetPixelsBatch
    \/ TwinSetPixelsArray
    \/ TwinSetAllPixels
    \/ TwinShow
    \/ TwinClear
    \/ TwinSetBrightness

SpecTwin == Init /\ [][NextTwin]_vars

----------------------------------------------------------------------------
(* The strip built directly, Strip(backend, has_white), with a has_white    *)
(* of the caller's choice, and the driver's write also called directly      *)

InitAny ==
    /\ LookupBuilt
    /\ \E led_count \in 0..MaxLeds, drv_has_white \in BOOLEAN, has_white \in BOOLEAN :
          sys = NewSystem(led_count, drv_has_white, has_white)
    /\ twin = sys

\* The calls that reach the driver (show, clear, write), and set_all_pixels
\* to give show something to send.
NextAny ==
    \/ SetAllPixels
    \/ Show
    \/ Clear
    \/ DriverWrite

SpecAny == InitAny /\ [][NextAny]_vars

----------------------------------------------------------------------------
(* The initializer alone: the first driver construction of a process, and   *)
(* NumThreads constructions started together                                *)

Idle == NewSystem(0, FALSE, FALSE)

\* One call of _init_spi_lookup on a fresh process, building all 256 entries.
InitLookup ==
    /\ SPI_LOOKUP = None
    /\ heap = <<>>
    /\ thr = <<NewThread>>
    /\ nvals = ByteRange
    /\ sys = Idle
    /\ twin = Idle

SpecLookup == InitLookup /\ [][init_spi_lookup]_vars

\* NumThreads threads enter _init_spi_lookup on a fresh process.  The
\* interleavings are explored on a loop of InterleavedVals iterations.
InitThreads ==
    /\ SPI_LOOKUP = None
    /\ heap = <<>>
    /\ thr = [t \in 1..NumThreads |-> NewThread]
    /\ nvals = InterleavedVals
    /\ sys = Idle
    /\ twin = Idle

SpecThreads == InitThreads /\ [][init_spi_lookup]_vars

----------------------------------------------------------------------------
(* Wire format                                                              *)

BytesPerPixel(has_white) == IF has_white THEN 4 ELSE 3

\* Channel byte k (from 0) of the flattened wire sequence of `pixels`:
\* LED k div channels, channel G, R, B, then W on a strip with a white channel.
WireByte(pixels, has_white, k) ==
    LET pixel == pixels[(k \div BytesPerPixel(has_white)) + 1]
        c == k % BytesPerPixel(has_white)
    IN  IF c = 0 THEN pixel.g
        ELSE IF c = 1 THEN pixel.r
        ELSE IF c = 2 THEN pixel.b
        ELSE pixel.w

\* frame is the wire frame of `pixels`: the preamble of zero bytes, then the
\* table entry of channel byte k at offset PREAMBLE + 3 * k, and nothing else.
IsFrameOf(frame, pixels, has_white) ==
    LET count == Len(pixels) * BytesPerPixel(has_white)
    IN  /\ Len(frame) = PREAMBLE + 3 * count
        /\ \A j \in 1..PREAMBLE : frame[j] = 0
        /\ \A k \in 0..(count - 1) :
              SubSeq(frame, PREAMBLE + 3 * k + 1, PREAMBLE + 3 * k + 3)
                 = FullLookup[WireByte(pixels, has_white, k) + 1]

AllBlack(n) == [k \in 1..n |-> Black]

NonBlack(s) == \E k \in 1..Len(s.pixels) : s.pixels[k] # Black

----------------------------------------------------------------------------
(* C1: after any sequence of set / set_all / batch / clear calls, show()    *)
(* makes exactly one bus transfer, and its frame is the 42 zero bytes of    *)
(* the preamble followed, LED by LED, by the table entries of the channels  *)
(* in the order G, R, B (, W), channel byte k at offset 42 + 3k; the frame  *)
(* is determined by the current pixels alone.                               *)
ShowSendsOneExactFrame ==
    sys.call = "show" =>
        /\ Len(sys.bus) = 1
        /\ PREAMBLE = 42
        /\ IsFrameOf(sys.bus[1], sys.pixels, sys.has_white)

ShowSentTwoLedRgbw ==
    /\ sys.call = "show"
    /\ sys.has_white
    /\ sys.led_count = 2
    /\ sys.pixels[1] # Black
    /\ sys.pixels[2] = Black
    /\ Len(sys.bus) = 1

----------------------------------------------------------------------------
(* Decoding of a table entry                                                *)

\* the 8 bits of a byte, most significant first
ByteBits(b) == [i \in 1..8 |-> (b \div (2 ^ (8 - i))) % 2]

\* the 24 bits of a 3-byte entry, most significant first
EntryBits(entry) == ByteBits(entry[1]) \o ByteBits(entry[2]) \o ByteBits(entry[3])

\* group i (from 1) of three bits
Group(bits, i) == SubSeq(bits, 3 * i - 2, 3 * i)

\* 110 decodes to 1 and 100 to 0
DecodeEntry(entry) ==
    LET bits == EntryBits(entry)
    IN  [i \in 1..8 |-> IF Group(bits, i) = <<1, 1, 0>> THEN 1 ELSE 0]

RoundTrips(entry, v) ==
    /\ Len(entry) = 3
    /\ \A j \in 1..3 : entry[j] \in 0..255
    /\ \A i \in 1..8 : Group(EntryBits(entry), i) \in { <<1, 1, 0>>, <<1, 0, 0>> }
    /\ DecodeEntry(entry) = ByteBits(v)

(* C2: every entry the initializer puts in the table for a byte value v is  *)
(* 3 bytes whose 24 bits are eight groups 110 or 100 that decode, most      *)
(* significant bit first, to the 8 bits of v; the finished table has 256    *)
(* entries, no two of them equal.                                           *)
EncoderRoundTrip ==
    SPI_LOOKUP # None =>
        /\ \A v \in 1..Len(Table) : RoundTrips(Table[v], v - 1)
        /\ (\A t \in Threads : thr[t].pc = "returned") =>
              /\ Len(Table) = 256
              /\ \A v1, v2 \in 1..256 : Table[v1] = Table[v2] => v1 = v2

\* the table is finished and holds the entry of 0xA5 = 10100101
TableBuiltWithA5 ==
    /\ thr[1].pc = "returned"
    /\ SPI_LOOKUP # None
    /\ Len(Table) = 256
    /\ Table[165 + 1] = <<211, 73, 166>>

----------------------------------------------------------------------------
(* C3: clear() makes exactly one transfer, of a buffer as long as the       *)
(* transmit buffer that holds the preamble followed by the table entry of   *)
(* byte 0 for every channel of every LED: the frame show() sends when every *)
(* pixel is (0,0,0,0).                                                      *)
ClearSendsEncodedOffFrame ==
    sys.call = "clear" =>
        /\ Len(sys.bus) = 1
        /\ Len(sys.bus[1]) = Len(sys.spi_buffer)
        /\ IsFrameOf(sys.bus[1], AllBlack(sys.led_count), sys.drv_has_white)
        /\ sys.bus[1] = show(set_all_pixels(sys, Black), Table, TRUE).bus[1]

----------------------------------------------------------------------------
(* C4: every call set(i, c) with 0 <= i < led_count replaces pixel i and    *)
(* leaves the others alone, and every call set(i, c) with any other integer *)
(* i raises an index error and leaves the pixels unchanged.                 *)
SetRejectsEveryIndexOutside ==
    [][\A i \in Indices, color \in Colors :
          sys' = set_pixel_color(sys, i, color) =>
             IF 0 <= i /\ i < sys.led_count
             THEN /\ sys'.error = "none"
                  /\ sys'.pixels = [sys.pixels EXCEPT ![i + 1] = color]
             ELSE /\ sys'.error = "IndexError"
                  /\ sys'.pixels = sys.pixels]_vars

----------------------------------------------------------------------------
(* C5 as stated: a call in which the bus transfer fails makes one transfer  *)
(* only and leaves the pixels as they were before the call.                 *)
BusErrorKeepsPixels ==
    [][sys'.error = "BusError" =>
          /\ Len(sys'.bus) = 1
          /\ sys'.pixels = sys.pixels]_vars

(* C5, amended: a call in which the bus transfer fails makes one transfer   *)
(* only; when the call is show() the pixels are as they were before it, and *)
(* a show() that then succeeds sends their frame; when the call is clear()  *)
(* the pixels have already been reset to (0,0,0,0).                         *)
BusErrorKeepsPixelsOfShow ==
    [][sys'.error = "BusError" =>
          /\ Len(sys'.bus) = 1
          /\ sys'.call \in {"show", "clear"}
          /\ sys'.call = "show" =>
                /\ sys'.pixels = sys.pixels
                /\ IsFrameOf(show(sys', Table, TRUE).bus[1], sys.pixels, sys.has_white)
          /\ sys'.call = "clear" => sys'.pixels = AllBlack(sys.led_count)]_vars

FailedShowWithColors ==
    /\ sys.error = "BusError"
    /\ sys.call = "show"
    /\ NonBlack(sys)

----------------------------------------------------------------------------
(* What a batch call is to leave behind                                     *)

\* the Color an element with channels ch stands for: white is 0 for three
\* channels
ColorOf(ch) == Color(ch[1], ch[2], ch[3], IF Len(ch) = 3 THEN 0 ELSE ch[4])

\* `after` is `before` with pixel start + k set to the colour of chans[k + 1]
\* for exactly the k with start + k < led_count, and nothing else changed
ClampedWrite(before, after, start, chans) ==
    /\ after.error = "none"
    /\ Len(after.pixels) = Len(before.pixels)
    /\ Len(after.pixels) = before.led_count
    /\ \A j \in 0..(before.led_count - 1) :
          after.pixels[j + 1] =
             IF start <= j /\ j < start + Len(chans)
             THEN ColorOf(chans[j - start + 1])
             ELSE before.pixels[j + 1]

(* C6: in every state, for every start >= 0 (also past the end) and every   *)
(* list of colours, set_batch and set_from_channel_array (3 or 4 columns)   *)
(* raise nothing, store element k in pixel start + k for the k with         *)
(* start + k < led_count (white 0 for a 3-channel element), ignore the      *)
(* rest, and leave every other pixel and the length unchanged.              *)
BatchClamps ==
    /\ \A start \in Starts, colors \in ColorLists :
          start >= 0 =>
             ClampedWrite(sys, set_pixels_batch(sys, start, colors), start,
                          [k \in 1..Len(colors) |-> colors[k].ch])
    /\ \A start \in Starts, array \in Arrays :
          (start >= 0 /\ array.width \in {3, 4}) =>
             ClampedWrite(sys, set_pixels_array(sys, start, array), start, array.rows)

\* the state a batch call that ran past the end has left: some element was
\* stored, a later one ignored
BatchWasClamped ==
    /\ sys.call = "set_pixels_batch"
    /\ sys.error = "none"
    /\ sys.led_count = 2
    /\ \E start \in Starts, colors \in ColorLists :
          /\ start < sys.led_count
          /\ start + Len(colors) > sys.led_count
          /\ sys = set_pixels_batch(sys, start, colors)
          /\ sys.pixels[start + 1] # Black

----------------------------------------------------------------------------
(* C7: in every state, for every start and every number of rows,            *)
(* set_from_channel_array with a channel dimension other than 3 or 4 raises *)
(* the invalid-shape error and has changed no pixel.                        *)
BadShapeRejectedWhole ==
    \A start \in Starts, array \in Arrays :
        array.width \notin {3, 4} =>
           LET after == set_pixels_array(sys, start, array)
           IN  /\ after.error = "ValueError"
               /\ after.pixels = sys.pixels

BadShapeRejectedOnColors ==
    /\ sys.call = "set_pixels_array"
    /\ sys.error = "ValueError"
    /\ NonBlack(sys)

----------------------------------------------------------------------------
----------------------------------------------------------------------------
(* C9: whatever arrays write() is given, the transmit buffer keeps the      *)
(* length 42 + led_count * channels_per_pixel * 3 it was built with, its    *)
(* first 42 bytes stay zero, and every transfer has that length.            *)
TransmitBufferKeepsShape ==
    LET size == 42 + sys.led_count * sys.bytes_per_pixel * 3
    IN  /\ Len(sys.spi_buffer) = size
        /\ \A j \in 1..42 : sys.spi_buffer[j] = 0
        /\ \A f \in 1..Len(sys.bus) : Len(sys.bus[f]) = size

----------------------------------------------------------------------------
(* C10: under any interleaving of the constructions, once a call of the     *)
(* initializer has returned the shared table holds every entry, in order.   *)
ReturnedMeansTableComplete ==
    \A t \in Threads :
        thr[t].pc = "returned" =>
           /\ SPI_LOOKUP # None
           /\ Table = BuiltLookup(nvals)

====
